---- MODULE Spec2Model ----
(***************************************************************************)
(* A model of wadofstuff.django.serializers: base.Serializer.serialize    *)
(* (the orchestrator) and python.Serializer (the hooks).                  *)
(*                                                                         *)
(* Python values are tagged records, so that a conversion changes the tag *)
(* (smart_str of a non-protected value gives a "str").  Dictionaries are  *)
(* functions over their keys.  Lists held in self.objects live in a heap  *)
(* of list objects and are named by reference, so that a result a caller  *)
(* still holds can alias what the serializer appends to.                  *)
(***************************************************************************)
EXTENDS Integers, Sequences, FiniteSets, TLC

VARIABLES
    inst,       \* the Serializer instance the caller uses (its attributes and its lists)
    pc,         \* where serialize() stands: idle, a loop of base.py 46-96, returning, raised
    queryset,   \* the queryset of the running call
    oi,         \* index in queryset of the object being processed
    fi,         \* index of the next item of the current loop
    callopts,   \* the options the caller passed to the running (or last) call
    held,       \* the list the caller got from the last return / getvalue() ("" if none)
    heldval     \* what that list contained when the caller got it

vars == <<inst, pc, queryset, oi, fi, callopts, held, heldval>>

----------------------------------------------------------------------------
(* Python values *)

NoneV == [t |-> "none"]
IntV(i) == [t |-> "int", i |-> i]
StrV(s) == [t |-> "str", s |-> s]
\* a value that is neither protected nor a string (a FieldFile, a UUID ...)
OtherV(r) == [t |-> "other", repr |-> r]
\* a model instance
ObjV(o) == [t |-> "obj", o |-> o]
\* a related manager: .all() / .iterator() give its objects in order
MgrV(os) == [t |-> "mgr", all |-> os]
\* a bound method taking no arguments
CallV(ret) == [t |-> "call", ret |-> ret]
TupleV(items) == [t |-> "tuple", items |-> items]
ListV(l) == [t |-> "list", l |-> l]
\* an attribute whose read raises
RaisesV(exc) == [t |-> "raises", exc |-> exc]

EmptyDict == [k \in {} |-> NoneV]
Range(s) == {s[i] : i \in DOMAIN s}
Max(S) == CHOOSE x \in S : \A y \in S : y <= x

\* the list objects a serializer can hold at one time
Refs == {"L0", "L1", "L2"}

\* nested serialize() calls the interpreter allows before RecursionError
StackLimit == 5

----------------------------------------------------------------------------
(* The data-access layer: models, their _meta and the stored objects *)

NoRel == [is_rel |-> FALSE, field_name |-> "", to |-> "", through_auto_created |-> FALSE]
Rel(to, field_name, auto) ==
    [is_rel |-> TRUE, field_name |-> field_name, to |-> to, through_auto_created |-> auto]

\* a non-relational field: attname = name
Direct(name, ser) == [name |-> name, attname |-> name, serialize |-> ser, rel |-> NoRel]
\* ForeignKey.get_attname(): name + "_id"
FK(name, to, field_name) ==
    [name |-> name, attname |-> name \o "_id", serialize |-> TRUE, rel |-> Rel(to, field_name, FALSE)]
M2M(name, to, auto) ==
    [name |-> name, attname |-> name, serialize |-> TRUE, rel |-> Rel(to, "id", auto)]

Meta(model) ==
    CASE model = "app.book" ->
           [label |-> "app.book", pk_name |-> "id", natural_key |-> FALSE,
            local_fields |-> <<Direct("id", FALSE), Direct("title", TRUE),
                               FK("author", "app.author", "id"), Direct("pages", TRUE)>>,
            many_to_many |-> <<M2M("tags", "app.tag", TRUE), M2M("editors", "app.author", FALSE)>>,
            related_fk |-> <<"review_set", "cover">>,
            related_m2m |-> <<"shelf_set">>]
      [] model = "app.author" ->
           [label |-> "app.author", pk_name |-> "id", natural_key |-> TRUE,
            local_fields |-> <<Direct("id", FALSE), Direct("name", TRUE)>>,
            many_to_many |-> <<>>,
            related_fk |-> <<"book_set">>,
            related_m2m |-> <<>>]
      [] model = "app.review" ->
           [label |-> "app.review", pk_name |-> "id", natural_key |-> FALSE,
            local_fields |-> <<Direct("id", FALSE), FK("book", "app.book", "title"),
                               Direct("text", TRUE), Direct("rating", TRUE)>>,
            many_to_many |-> <<>>,
            related_fk |-> <<>>,
            related_m2m |-> <<>>]
      [] model = "app.tag" ->
           [label |-> "app.tag", pk_name |-> "id", natural_key |-> FALSE,
            local_fields |-> <<Direct("id", FALSE), Direct("label", TRUE)>>,
            many_to_many |-> <<>>,
            related_fk |-> <<>>,
            related_m2m |-> <<"book_set">>]
      [] model = "app.cover" ->
           [label |-> "app.cover", pk_name |-> "id", natural_key |-> FALSE,
            local_fields |-> <<Direct("id", FALSE), FK("book", "app.book", "id"),
                               Direct("image", TRUE)>>,
            many_to_many |-> <<>>,
            related_fk |-> <<>>,
            related_m2m |-> <<>>]
      [] model = "app.shelf" ->
           [label |-> "app.shelf", pk_name |-> "id", natural_key |-> FALSE,
            local_fields |-> <<Direct("id", FALSE), Direct("room", TRUE)>>,
            many_to_many |-> <<M2M("books", "app.book", TRUE)>>,
            related_fk |-> <<>>,
            related_m2m |-> <<>>]

\* the attributes of each stored object: what getattr(obj, name) gives
Stored(o) ==
    CASE o = "a1" ->
           [model |-> "app.author",
            attrs |-> [id |-> IntV(1), name |-> StrV("Alice"),
                       book_set |-> MgrV(<<"b1", "b2">>),
                       natural_key |-> CallV(TupleV(<<StrV("Alice")>>))]]
      [] o = "b1" ->
           [model |-> "app.book",
            attrs |-> [id |-> IntV(10), title |-> StrV("X"), author |-> ObjV("a1"),
                       author_id |-> IntV(1), pages |-> IntV(300),
                       tags |-> MgrV(<<"t1", "t2">>), editors |-> MgrV(<<"a1">>),
                       review_set |-> MgrV(<<"r1">>), cover |-> ObjV("c1"),
                       shelf_set |-> MgrV(<<"s1">>),
                       isbn |-> StrV("i-10"), page_count |-> CallV(IntV(300)),
                       blurb |-> CallV(OtherV("blurb-10"))]]
      [] o = "b2" ->
           [model |-> "app.book",
            attrs |-> [id |-> IntV(11), title |-> OtherV("Y"), author |-> ObjV("a1"),
                       author_id |-> IntV(1), pages |-> NoneV,
                       tags |-> MgrV(<<>>), editors |-> MgrV(<<>>),
                       review_set |-> MgrV(<<>>), cover |-> NoneV,
                       shelf_set |-> MgrV(<<>>),
                       isbn |-> OtherV("i-11")]]
      [] o = "b3" ->
           [model |-> "app.book",
            attrs |-> [id |-> IntV(12), title |-> StrV("Z"), author |-> NoneV,
                       author_id |-> NoneV, pages |-> IntV(7),
                       tags |-> MgrV(<<"t1">>), editors |-> MgrV(<<>>),
                       review_set |-> MgrV(<<>>), cover |-> RaisesV("DoesNotExist"),
                       shelf_set |-> MgrV(<<>>),
                       page_count |-> CallV(IntV(7))]]
      [] o = "r1" ->
           [model |-> "app.review",
            attrs |-> [id |-> IntV(20), book |-> ObjV("b1"), book_id |-> StrV("X"),
                       text |-> StrV("good"), rating |-> IntV(5),
                       stars |-> CallV(StrV("*****"))]]
      [] o = "t1" ->
           [model |-> "app.tag",
            attrs |-> [id |-> IntV(30), label |-> StrV("scifi"),
                       book_set |-> MgrV(<<"b1", "b3">>)]]
      [] o = "t2" ->
           [model |-> "app.tag",
            attrs |-> [id |-> IntV(31), label |-> StrV("epic"),
                       book_set |-> MgrV(<<"b1">>)]]
      [] o = "c1" ->
           [model |-> "app.cover",
            attrs |-> [id |-> IntV(40), book |-> ObjV("b1"), book_id |-> IntV(10),
                       image |-> OtherV("c.png")]]
      [] o = "s1" ->
           [model |-> "app.shelf",
            attrs |-> [id |-> IntV(50), room |-> StrV("hall"),
                       books |-> MgrV(<<"b1">>)]]

MetaOf(o) == Meta(Stored(o).model)
\* hasattr(obj, name)
HasAttr(o, name) == name \in DOMAIN Stored(o).attrs
\* getattr(obj, name)
GetAttr(o, name) == Stored(o).attrs[name]
\* obj._get_pk_val()
GetPkVal(o) == GetAttr(o, MetaOf(o).pk_name)

----------------------------------------------------------------------------
(* django.utils.encoding *)

\* is_protected_type(value): None, numbers, dates and Decimals
IsProtectedType(v) == v.t \in {"none", "int"}

\* str(value)
Str(v) ==
    CASE v.t = "str" -> v
      [] v.t = "int" -> StrV(ToString(v.i))
      [] v.t = "none" -> StrV("None")
      [] v.t = "other" -> StrV(v.repr)
      [] v.t = "obj" -> StrV(Stored(v.o).model \o " object")
      [] OTHER -> StrV("<" \o v.t \o ">")

SmartStr_Always(v, strings_only) == Str(v)

\* smart_str(value, strings_only): protected types pass through when strings_only
SmartStr(v, strings_only) ==
    IF strings_only /\ IsProtectedType(v) THEN v ELSE Str(v)

----------------------------------------------------------------------------
(* Dictionaries, option bags and the `relations` option *)

Put(d, k, v) == [x \in DOMAIN d \cup {k} |-> IF x = k THEN v ELSE d[x]]
Remove(d, ks) == [x \in DOMAIN d \ ks |-> d[x]]
\* dict.pop(key, default), the value
Pop(d, k, default) == IF k \in DOMAIN d THEN d[k] ELSE default

\* the `relations` option: a list of names, or a dict of name -> value
RelList(names) == [kind |-> "list", names |-> names]
RelDict(map) == [kind |-> "dict", items |-> map]
\* a dict value of `relations` that is itself a dict of options
DictV(map) == [kind |-> "dict", items |-> map]
\* a dict value of `relations` that is not a dict (True, None, ...)
NonDict == [kind |-> "other"]

\* name in self.relations
Contains(relations, name) ==
    IF relations.kind = "list" THEN name \in Range(relations.names)
    ELSE name \in DOMAIN relations.items

\* name in a list of names
InList(name, names) == \E i \in DOMAIN names : names[i] = name

NestedOptions_InheritFields(self, fname) ==
    LET own == IF self.relations.kind = "dict"
               THEN IF self.relations.items[fname].kind = "dict"
                    THEN self.relations.items[fname].items
                    ELSE EmptyDict
               ELSE EmptyDict
    IN IF "fields" \in DOMAIN own THEN own ELSE Put(own, "fields", self.fields)

NestedOptions_InheritRelations(self, fname) ==
    [relations |-> self.relations]

\* the options of a nested call: relations[fname] when both are dicts, else {}
NestedOptions(self, fname) ==
    IF self.relations.kind = "dict"
    THEN IF self.relations.items[fname].kind = "dict"
         THEN self.relations.items[fname].items
         ELSE EmptyDict
    ELSE EmptyDict

----------------------------------------------------------------------------
(* The Serializer instance *)

\* Serializer(): the attributes both __init__ declare.  heap holds the list
\* objects the instance has made; error and trace are history: the exception
\* that left the running call, and the hooks dispatched for the current object.
NewSerializer ==
    [options |-> NoneV, stream |-> NoneV, fields |-> NoneV, excludes |-> NoneV,
     relations |-> NoneV, extras |-> NoneV, use_natural_keys |-> NoneV,
     _fields |-> NoneV, _extras |-> NoneV,
     objects |-> "L0", heap |-> [r \in {"L0"} |-> <<>>],
     error |-> "", trace |-> <<>>]

OptionKeys == {"stream", "fields", "excludes", "relations", "extras", "use_natural_keys"}

\* serialize(), the head: the options are popped off the keyword dict
PopOptions(self, options) ==
    [self EXCEPT !.options = Remove(options, OptionKeys),
                 !.stream = Pop(options, "stream", OtherV("StringIO")),
                 !.fields = Pop(options, "fields", <<>>),
                 !.excludes = Pop(options, "excludes", <<>>),
                 !.relations = Pop(options, "relations", RelList(<<>>)),
                 !.extras = Pop(options, "extras", <<>>),
                 !.use_natural_keys = Pop(options, "use_natural_keys", FALSE),
                 !.error = "", !.trace = <<>>]

\* getvalue()
GetValue(self) == self.heap[self.objects]

StartSerialization_NoReset(self) ==
    [self EXCEPT !._fields = NoneV, !._extras = NoneV]

\* start_serialization(): self.objects = [] binds a new list
StartSerialization(self) ==
    LET r == CHOOSE r \in Refs : r \notin DOMAIN self.heap
    IN [self EXCEPT !._fields = NoneV, !._extras = NoneV,
                    !.objects = r,
                    !.heap = [x \in DOMAIN self.heap \cup {r} |->
                                 IF x = r THEN <<>> ELSE self.heap[x]]]

\* the lists nothing refers to any more are freed
Collect(self, roots) ==
    [self EXCEPT !.heap = [x \in (DOMAIN self.heap) \cap ({self.objects} \cup roots) |->
                              self.heap[x]]]

\* start_object()
StartObject(self, obj) ==
    IF self.error # "" THEN self
    ELSE [self EXCEPT !._fields = EmptyDict, !._extras = EmptyDict,
                      !.trace = <<<<"start_object", "">>>>]

\* the record end_object() builds
Record(self, obj) ==
    LET rec == [t |-> "rec",
                model |-> SmartStr(StrV(MetaOf(obj).label), FALSE),
                pk |-> SmartStr(GetPkVal(obj), TRUE),
                fields |-> self._fields]
    IN IF self._extras # EmptyDict THEN Put(rec, "extras", self._extras) ELSE rec

\* end_object()
EndObject(self, obj) ==
    IF self.error # "" THEN self
    ELSE [self EXCEPT !.heap[self.objects] = Append(@, Record(self, obj)),
                      !._fields = NoneV, !._extras = NoneV,
                      !.trace = Append(@, <<"end_object", "">>)]

Raise_Discard(self, exc) == [self EXCEPT !.error = exc, !.heap[self.objects] = <<>>]

\* an exception leaves the hook and serialize(): nothing is stored, nothing is undone
Raise(self, exc) == [self EXCEPT !.error = exc]

SetField(self, name, value) == [self EXCEPT !._fields = Put(@, name, value)]

\* handle_field()
HandleField(self, obj, field) ==
    LET value == GetAttr(obj, field.attname)
    IN IF value.t = "raises" THEN Raise(self, value.exc)
       ELSE IF IsProtectedType(value) THEN SetField(self, field.name, value)
       ELSE SetField(self, field.name, Str(value))

\* handle_extra_field()
HandleExtraField(self, obj, field) ==
    IF HasAttr(obj, field)
    THEN LET extra == GetAttr(obj, field)
         IN IF extra.t = "call"
            THEN [self EXCEPT !._extras = Put(@, field, SmartStr(extra.ret, TRUE))]
            ELSE [self EXCEPT !._extras = Put(@, field, SmartStr(extra, TRUE))]
    ELSE self

----------------------------------------------------------------------------
(* The hooks that may expand a relation, and serialize() itself *)

RECURSIVE Serialize(_, _, _, _)
RECURSIVE SerializeEach(_, _, _, _)
RECURSIVE Seek(_, _, _, _)
RECURSIVE RunObject(_, _, _, _, _)
RECURSIVE RunObjects(_, _, _, _)
RECURSIVE RunAt(_, _, _, _)

\* serializer.serialize(queryset, **options) made from inside a hook that runs
\* d calls deep: ** builds a new dict, so the callee pops from its own copy
Nested(serializer, qs, options, d) ==
    IF d >= StackLimit THEN Raise(serializer, "RecursionError")
    ELSE Serialize(serializer, qs, options, d + 1)

\* [serializer.serialize([related], **options)[0] for related in ...iterator()]:
\* the one serializer is used for every element
\* the element a call adds to the list being built
Cons(first, rest) == [ser |-> rest.ser, out |-> <<first>> \o rest.out]

\* after the call for the first element: the calls for the others
EachAfter(n, rels, options, d) ==
    IF n.error # "" THEN [ser |-> n, out |-> <<>>]
    ELSE Cons(GetValue(n)[1], SerializeEach(n, Tail(rels), options, d))

SerializeEach(serializer, rels, options, d) ==
    IF rels = <<>> THEN [ser |-> serializer, out |-> <<>>]
    ELSE EachAfter(Nested(serializer, <<rels[1]>>, options, d), rels, options, d)

\* self._fields[fname] = <nested call>[0]
StoreFirst(self, fname, n) ==
    IF n.error # "" THEN Raise(self, n.error) ELSE SetField(self, fname, GetValue(n)[1])

\* self._fields[fname] = <nested call>
StoreAll(self, fname, n) ==
    IF n.error # "" THEN Raise(self, n.error) ELSE SetField(self, fname, ListV(GetValue(n)))

\* self._fields[fname] = [<nested call>[0] for related in ...]
StoreEach(self, fname, e) ==
    IF e.ser.error # "" THEN Raise(self, e.ser.error) ELSE SetField(self, fname, ListV(e.out))

\* related.natural_key()
NaturalKey(o) == GetAttr(o, "natural_key").ret

\* handle_fk_field()
HandleFkField(self, obj, field, d) ==
    LET fname == field.name
        related == GetAttr(obj, fname)
    IN IF related.t = "raises" THEN Raise(self, related.exc)
       ELSE IF related # NoneV
       THEN IF Contains(self.relations, fname)
            THEN StoreFirst(self, fname,
                            Nested(NewSerializer, <<related.o>>, NestedOptions(self, fname), d))
            ELSE IF self.use_natural_keys /\ HasAttr(related.o, "natural_key")
                 THEN SetField(self, fname, NaturalKey(related.o))
                 ELSE IF field.rel.field_name = MetaOf(related.o).pk_name
                      THEN SetField(self, fname, GetPkVal(related.o))
                      ELSE SetField(self, fname,
                                    SmartStr(GetAttr(related.o, field.rel.field_name), TRUE))
       ELSE SetField(self, fname, SmartStr(related, TRUE))

\* handle_m2m_field()
HandleM2MField(self, obj, field, d) ==
    IF field.rel.through_auto_created
    THEN LET fname == field.name
             rels == GetAttr(obj, fname)
         IN IF rels.t = "raises" THEN Raise(self, rels.exc)
            ELSE IF Contains(self.relations, fname)
            THEN StoreEach(self, fname,
                           SerializeEach(NewSerializer, rels.all, NestedOptions(self, fname), d))
            ELSE IF self.use_natural_keys /\ Meta(field.rel.to).natural_key
                 THEN SetField(self, fname,
                               ListV([i \in DOMAIN rels.all |-> NaturalKey(rels.all[i])]))
                 ELSE SetField(self, fname,
                               ListV([i \in DOMAIN rels.all |->
                                         SmartStr(GetPkVal(rels.all[i]), TRUE)]))
    ELSE self

\* handle_related_m2m_field()
HandleRelatedM2MField(self, obj, field_name, d) ==
    IF Contains(self.relations, field_name)
    THEN LET rels == GetAttr(obj, field_name)
         IN IF rels.t = "raises" THEN Raise(self, rels.exc)
            ELSE StoreEach(self, field_name,
                           SerializeEach(NewSerializer, rels.all,
                                         NestedOptions(self, field_name), d))
    ELSE self

HandleRelatedFkField_PkList(self, obj, field_name, d) ==
    LET fname == field_name
        related == GetAttr(obj, fname)
    IN IF related.t = "raises" THEN Raise(self, related.exc)
       ELSE IF related # NoneV
       THEN IF Contains(self.relations, field_name)
            THEN IF related.t = "mgr"
                 THEN StoreAll(self, fname,
                               Nested(NewSerializer, related.all,
                                      NestedOptions(self, field_name), d))
                 ELSE StoreFirst(self, fname,
                                 Nested(NewSerializer, <<related.o>>,
                                        NestedOptions(self, field_name), d))
            ELSE SetField(self, fname,
                          IF related.t = "mgr"
                          THEN ListV([i \in DOMAIN related.all |->
                                         SmartStr(GetPkVal(related.all[i]), TRUE)])
                          ELSE SmartStr(GetPkVal(related.o), TRUE))
       ELSE SetField(self, fname, SmartStr(related, TRUE))

\* handle_related_fk_field()
HandleRelatedFkField(self, obj, field_name, d) ==
    LET fname == field_name
        related == GetAttr(obj, fname)
    IN IF related.t = "raises" THEN Raise(self, related.exc)
       ELSE IF related # NoneV
       THEN IF Contains(self.relations, field_name)
            THEN IF related.t = "mgr"
                 THEN StoreAll(self, fname,
                               Nested(NewSerializer, related.all,
                                      NestedOptions(self, field_name), d))
                 ELSE StoreFirst(self, fname,
                                 Nested(NewSerializer, <<related.o>>,
                                        NestedOptions(self, field_name), d))
            ELSE self
       ELSE SetField(self, fname, SmartStr(related, TRUE))

----------------------------------------------------------------------------
(* base.Serializer.serialize: the loops over one object *)

LogicalName_AttName(attname) == attname

\* attname[:-3]: the foreign key's name without "_id"
LogicalName(attname) == SubSeq(attname, 1, Len(attname) - 3)

\* the test of a declared field: not excluded, and listed when `fields` lists any
Selected(self, name) ==
    /\ ~InList(name, self.excludes)
    /\ (self.fields = <<>> \/ InList(name, self.fields))

RelatedSelected_AllowList(self, field_name) ==
    /\ ~InList(field_name, self.excludes)
    /\ (self.fields = <<>> \/ InList(field_name, self.fields))

\* the test of a reverse relation: not excluded
RelatedSelected(self, field_name) == ~InList(field_name, self.excludes)

\* history: the hook dispatched and the name it was dispatched for
Log(self, hook, name) == [self EXCEPT !.trace = Append(@, <<hook, name>>)]

LoopOrder_RelatedFirst ==
    <<"local_fields", "related_fk", "many_to_many", "related_m2m", "extras", "end_object">>

\* the loops of serialize() over one object, in program order, then end_object
LoopOrder ==
    <<"local_fields", "many_to_many", "related_fk", "related_m2m", "extras", "end_object">>

\* what each loop iterates over
Items(self, obj, loop) ==
    CASE loop = "local_fields" -> MetaOf(obj).local_fields
      [] loop = "many_to_many" -> MetaOf(obj).many_to_many
      [] loop = "related_fk" -> MetaOf(obj).related_fk
      [] loop = "related_m2m" -> MetaOf(obj).related_m2m
      [] loop = "extras" -> self.extras
      [] loop = "end_object" -> <<"">>

\* one iteration of `for field in obj._meta.local_fields`
LocalFieldStep(self, obj, field, d) ==
    IF self.error # "" THEN self
    ELSE IF field.serialize
    THEN IF ~field.rel.is_rel
         THEN IF Selected(self, field.attname)
              THEN HandleField(Log(self, "handle_field", field.name), obj, field)
              ELSE self
         ELSE IF Selected(self, LogicalName(field.attname))
              THEN HandleFkField(Log(self, "handle_fk_field", field.name), obj, field, d)
              ELSE self
    ELSE self

\* one iteration of `for field in obj._meta.many_to_many`
M2MStep(self, obj, field, d) ==
    IF self.error # "" THEN self
    ELSE IF field.serialize /\ Selected(self, field.attname)
    THEN HandleM2MField(Log(self, "handle_m2m_field", field.name), obj, field, d)
    ELSE self

\* one iteration of `for ro in related_fk_objects`
RelatedFkStep(self, obj, field_name, d) ==
    IF self.error # "" THEN self
    ELSE IF RelatedSelected(self, field_name)
    THEN HandleRelatedFkField(Log(self, "handle_related_fk_field", field_name),
                              obj, field_name, d)
    ELSE self

\* one iteration of `for ro in related_m2m_objects`
RelatedM2MStep(self, obj, field_name, d) ==
    IF self.error # "" THEN self
    ELSE IF RelatedSelected(self, field_name)
    THEN HandleRelatedM2MField(Log(self, "handle_related_m2m_field", field_name),
                               obj, field_name, d)
    ELSE self

\* one iteration of `for extra in self.extras`
ExtraStep(self, obj, extra, d) ==
    IF self.error # "" THEN self
    ELSE HandleExtraField(Log(self, "handle_extra_field", extra), obj, extra)

StepAt(self, obj, loop, item, d) ==
    CASE loop = "local_fields" -> LocalFieldStep(self, obj, item, d)
      [] loop = "many_to_many" -> M2MStep(self, obj, item, d)
      [] loop = "related_fk" -> RelatedFkStep(self, obj, item, d)
      [] loop = "related_m2m" -> RelatedM2MStep(self, obj, item, d)
      [] loop = "extras" -> ExtraStep(self, obj, item, d)

\* the next iteration to run from item i of loop p: exhausted loops are left
Seek(self, obj, p, i) ==
    IF LoopOrder[p] = "end_object" \/ i <= Len(Items(self, obj, LoopOrder[p]))
    THEN <<p, i>>
    ELSE Seek(self, obj, p + 1, 1)

\* the body of `for obj in queryset` after start_object, from item i of loop p
RunAt(self, obj, pos, d) ==
    IF self.error # "" THEN self
    ELSE IF LoopOrder[pos[1]] = "end_object" THEN EndObject(self, obj)
    ELSE RunObject(StepAt(self, obj, LoopOrder[pos[1]],
                          Items(self, obj, LoopOrder[pos[1]])[pos[2]], d),
                   obj, pos[1], pos[2] + 1, d)

RunObject(self, obj, p, i, d) == RunAt(self, obj, Seek(self, obj, p, i), d)

\* `for obj in queryset`, from the k-th object
RunObjects(self, qs, k, d) ==
    IF k > Len(qs) \/ self.error # "" THEN self
    ELSE RunObjects(RunObject(StartObject(self, qs[k]), qs[k], 1, 1, d), qs, k + 1, d)

\* serialize(queryset, **options), run to its return or to the exception that
\* leaves it; the result is what getvalue() then gives
Serialize(self, qs, options, d) ==
    RunObjects(StartSerialization(PopOptions(self, options)), qs, 1, d)

----------------------------------------------------------------------------
(* The calls a caller makes *)

FieldsOpts ==
    {EmptyDict, [fields |-> <<"title">>], [fields |-> <<"pages", "author", "tags">>]}
ExcludesOpts ==
    {EmptyDict, [excludes |-> <<"title">>], [excludes |-> <<"author", "tags">>],
     [excludes |-> <<"cover", "review_set", "shelf_set">>]}
RelationsOpts ==
    {EmptyDict,
     [relations |-> RelList(<<"author", "tags", "review_set", "cover", "shelf_set">>)],
     [relations |-> RelDict([author |-> DictV([excludes |-> <<"name">>,
                                               relations |-> RelList(<<"book_set">>)]),
                             tags |-> NonDict,
                             cover |-> DictV([fields |-> <<"image">>])])],
     [relations |-> RelDict([author |-> DictV([relations |->
                        RelDict([book_set |-> DictV([relations |-> RelList(<<"author">>),
                                                     extras |-> <<"isbn">>])])])])]}
ExtrasOpts == {EmptyDict, [extras |-> <<"isbn", "missing", "page_count", "blurb">>]}
NaturalKeyOpts == {EmptyDict, [use_natural_keys |-> TRUE]}

BookQuerysets == {<<"b1">>, <<"b2", "b1">>, <<"b1", "b3">>}
BookOptions ==
    {f @@ e @@ r @@ x @@ n : f \in FieldsOpts, e \in ExcludesOpts, r \in RelationsOpts,
                             x \in ExtrasOpts, n \in NaturalKeyOpts}

OtherCalls ==
    {<<<<>>, EmptyDict>>,
     <<<<"r1">>, EmptyDict>>,
     <<<<"b1">>, [relations |-> RelList(<<"author", "book_set">>)]>>,
     <<<<"r1">>, [relations |-> RelList(<<"book">>), extras |-> <<"stars">>]>>,
     <<<<"r1">>, [excludes |-> <<"book">>, fields |-> <<"book", "text">>]>>,
     <<<<"a1">>, EmptyDict>>,
     <<<<"a1">>, [extras |-> <<"missing">>]>>,
     <<<<"a1">>, [relations |-> RelList(<<"book_set">>)]>>,
     <<<<"a1">>, [relations |-> RelDict([book_set |-> DictV([relations |->
                     RelDict([author |-> DictV([relations |-> RelList(<<"book_set">>)])])])])]>>,
     <<<<"t1", "t2">>, [relations |-> RelList(<<"book_set">>)]>>,
     <<<<"t2">>, [relations |-> RelDict([book_set |-> NonDict])]>>,
     <<<<"s1">>, [relations |-> RelList(<<"books">>), stream |-> OtherV("out")]>>,
     <<<<"c1">>, [use_natural_keys |-> TRUE]>>}

\* the calls made on a new instance: <<queryset, options>>
Pool == {<<q, o>> : q \in BookQuerysets, o \in BookOptions} \cup OtherCalls

\* the calls made on an instance that is used again and again
ReusePool ==
    {<<<<>>, EmptyDict>>,
     <<<<"b1">>, EmptyDict>>,
     <<<<"b2", "b1">>, [relations |-> RelList(<<"author", "tags">>), extras |-> <<"isbn">>]>>,
     <<<<"b1", "b3">>, [fields |-> <<"title">>]>>,
     <<<<"a1">>, [relations |-> RelList(<<"book_set">>)]>>}

Obj == queryset[oi]
LoopIndex(loop) == CHOOSE p \in DOMAIN LoopOrder : LoopOrder[p] = loop

Init ==
    /\ inst = NewSerializer
    /\ pc = "idle"
    /\ queryset = <<>>
    /\ oi = 0
    /\ fi = 0
    /\ callopts = EmptyDict
    /\ held = ""
    /\ heldval = <<>>

\* Serializer(): the caller drops the old instance and what it returned
Construct ==
    /\ pc \in {"returned", "raised"}
    /\ inst' = NewSerializer
    /\ pc' = "idle"
    /\ queryset' = <<>>
    /\ oi' = 0
    /\ fi' = 0
    /\ callopts' = EmptyDict
    /\ held' = ""
    /\ heldval' = <<>>

\* serialize(queryset, **options) up to the loop over the queryset
CallWith(pool) ==
    \E c \in pool :
        /\ inst' = Collect(StartSerialization(PopOptions(inst, c[2])), {held})
        /\ queryset' = c[1]
        /\ callopts' = c[2]
        /\ oi' = 1
        /\ fi' = 1
        /\ pc' = IF c[1] = <<>> THEN "end_serialization" ELSE "start_object"
        /\ UNCHANGED <<held, heldval>>

Call == pc = "idle" /\ CallWith(Pool)

CallAgain == pc \in {"idle", "returned", "raised"} /\ CallWith(ReusePool)

\* the loop and item serialize() stands at next
Goto(pos) == pc' = LoopOrder[pos[1]] /\ fi' = pos[2]

\* after an iteration left the instance as s: on to the next, or out with the exception
After(loop, s) ==
    /\ inst' = s
    /\ IF s.error # ""
       THEN pc' = "raised" /\ fi' = fi
       ELSE Goto(Seek(s, Obj, LoopIndex(loop), fi + 1))

\* self.start_object(obj)
StartObjectAct ==
    /\ pc = "start_object"
    /\ inst' = StartObject(inst, Obj)
    /\ Goto(Seek(StartObject(inst, Obj), Obj, 1, 1))
    /\ UNCHANGED <<queryset, oi, callopts, held, heldval>>

\* for field in obj._meta.local_fields: one iteration
LocalField ==
    /\ pc = "local_fields"
    /\ After("local_fields", LocalFieldStep(inst, Obj, MetaOf(Obj).local_fields[fi], 0))
    /\ UNCHANGED <<queryset, oi, callopts, held, heldval>>

\* for field in obj._meta.many_to_many: one iteration
ManyToMany ==
    /\ pc = "many_to_many"
    /\ After("many_to_many", M2MStep(inst, Obj, MetaOf(Obj).many_to_many[fi], 0))
    /\ UNCHANGED <<queryset, oi, callopts, held, heldval>>

\* for ro in related_fk_objects: one iteration
RelatedFk ==
    /\ pc = "related_fk"
    /\ After("related_fk", RelatedFkStep(inst, Obj, MetaOf(Obj).related_fk[fi], 0))
    /\ UNCHANGED <<queryset, oi, callopts, held, heldval>>

\* for ro in related_m2m_objects: one iteration
RelatedM2M ==
    /\ pc = "related_m2m"
    /\ After("related_m2m", RelatedM2MStep(inst, Obj, MetaOf(Obj).related_m2m[fi], 0))
    /\ UNCHANGED <<queryset, oi, callopts, held, heldval>>

\* for extra in self.extras: one iteration
Extra ==
    /\ pc = "extras"
    /\ After("extras", ExtraStep(inst, Obj, inst.extras[fi], 0))
    /\ UNCHANGED <<queryset, oi, callopts, held, heldval>>

\* self.end_object(obj), and on to the next object
EndObjectAct ==
    /\ pc = "end_object"
    /\ inst' = EndObject(inst, Obj)
    /\ oi' = oi + 1
    /\ fi' = 1
    /\ pc' = IF oi < Len(queryset) THEN "start_object" ELSE "end_serialization"
    /\ UNCHANGED <<queryset, callopts, held, heldval>>

\* self.end_serialization(); return self.getvalue()
Return ==
    /\ pc = "end_serialization"
    /\ pc' = "returned"
    /\ held' = inst.objects
    /\ heldval' = GetValue(inst)
    /\ inst' = Collect(inst, {})
    /\ UNCHANGED <<queryset, oi, fi, callopts>>

\* the caller asks getvalue() of an instance whose call raised
GetValueAct ==
    /\ pc = "raised"
    /\ held # inst.objects
    /\ held' = inst.objects
    /\ heldval' = GetValue(inst)
    /\ inst' = Collect(inst, {})
    /\ UNCHANGED <<pc, queryset, oi, fi, callopts>>

Steps ==
    \/ StartObjectAct
    \/ LocalField
    \/ ManyToMany
    \/ RelatedFk
    \/ RelatedM2M
    \/ Extra
    \/ EndObjectAct
    \/ Return
    \/ GetValueAct

Next == Construct \/ Call \/ Steps

Spec == Init /\ [][Next]_vars

NextReuse == CallAgain \/ Steps

SpecReuse == Init /\ [][NextReuse]_vars

----------------------------------------------------------------------------
(* What the caller passed and what it can observe *)

Excl == Pop(callopts, "excludes", <<>>)
Flds == Pop(callopts, "fields", <<>>)
Rels == Pop(callopts, "relations", [kind |-> "list", names |-> <<>>])
Xtrs == Pop(callopts, "extras", <<>>)
InRels(n) ==
    IF Rels.kind = "list" THEN \E i \in DOMAIN Rels.names : Rels.names[i] = n
    ELSE n \in DOMAIN Rels.items

\* the records of the objects finished so far
Finished == GetValue(inst)
\* an object is being processed (or was, when the exception left)
Building ==
    pc \in {"local_fields", "many_to_many", "related_fk", "related_m2m", "extras",
            "end_object", "raised"}

LocalFields(o) == {f \in Range(MetaOf(o).local_fields) : f.serialize}
DirectNames(o) == {f.name : f \in {x \in LocalFields(o) : ~x.rel.is_rel}}
FkFields(o) == {x \in LocalFields(o) : x.rel.is_rel}
FkNames(o) == {f.name : f \in FkFields(o)}
M2MFields(o) == {f \in Range(MetaOf(o).many_to_many) : f.serialize}
M2MNames(o) == {f.name : f \in M2MFields(o)}
ReverseFkNames(o) == Range(MetaOf(o).related_fk)
ReverseM2MNames(o) == Range(MetaOf(o).related_m2m)
ReverseNames(o) == ReverseFkNames(o) \cup ReverseM2MNames(o)

----------------------------------------------------------------------------
\* C1: a name listed in `excludes` is never a key of a record's `fields`, be it a
\* direct field, a forward foreign key, a many-to-many field or a reverse
\* accessor, and whether or not `fields` or `relations` list it too.
C1_ExcludesDominance ==
    \A n \in Range(Excl) :
        /\ \A i \in DOMAIN Finished : n \notin DOMAIN Finished[i].fields
        /\ Building => n \notin DOMAIN inst._fields

\* a book came back whose foreign key `author` was excluded, allowed and expanded
C1_Witness ==
    /\ pc = "returned"
    /\ queryset = <<"b1">>
    /\ InList("author", Excl) /\ InList("author", Flds) /\ InRels("author")
    /\ DOMAIN heldval[1].fields = {"pages"}

C3_ReverseAbsent ==
    \A i \in DOMAIN Finished :
        \A r \in ReverseNames(queryset[i]) :
            ~InRels(r) => r \notin DOMAIN Finished[i].fields

\* C4: getvalue() after a successful call has one record per object of that call, in
\* order, also when the instance is used again: a call's result holds only that
\* call's objects, and a result returned earlier is not changed by a later call.
\* The same holds of the serializer a many-to-many expansion uses for each element.
C4_OneRecordPerObject ==
    /\ \A i \in DOMAIN Finished :
          /\ i <= Len(queryset)
          /\ Finished[i].model = StrV(MetaOf(queryset[i]).label)
          /\ Finished[i].pk = GetPkVal(queryset[i])
    /\ pc \in {"end_serialization", "returned"} => Len(Finished) = Len(queryset)
    /\ held # "" => inst.heap[held] = heldval
    /\ \A i \in DOMAIN Finished :
          \A m \in M2MFields(queryset[i]) :
              (m.name \in DOMAIN Finished[i].fields /\ InRels(m.name)) =>
                  LET got == Finished[i].fields[m.name].l
                      rels == GetAttr(queryset[i], m.name).all
                  IN /\ Len(got) = Len(rels)
                     /\ \A k \in DOMAIN got : got[k].pk = GetPkVal(rels[k])

\* a second call on the instance is about to return while the caller holds the
\* result of an earlier one; the second expanded the two tags of b1
C4_Witness ==
    /\ pc = "end_serialization"
    /\ held # "" /\ held # inst.objects
    /\ Len(heldval) = 1
    /\ queryset = <<"b2", "b1">>
    /\ Len(Finished) = 2
    /\ Len(Finished[2].fields["tags"].l) = 2

Tr == inst.trace
\* the object the trace is about
TraceObj == IF Tr[Len(Tr)][1] = "end_object" THEN queryset[oi - 1] ELSE queryset[oi]
ExtraAt == {i \in DOMAIN Tr : Tr[i][1] = "handle_extra_field"}

StepRank(h) ==
    CASE h = "start_object" -> 0
      [] h = "handle_field" -> 1
      [] h = "handle_fk_field" -> 2
      [] h = "handle_m2m_field" -> 3
      [] h = "handle_related_fk_field" -> 4
      [] h = "handle_related_m2m_field" -> 5
      [] h = "handle_extra_field" -> 6
      [] h = "end_object" -> 7

LoopRank(h) == IF h = "handle_fk_field" THEN 1 ELSE StepRank(h)

DeclaredAt(o, name) ==
    CHOOSE k \in DOMAIN MetaOf(o).local_fields : MetaOf(o).local_fields[k].name = name

\* C5, as claimed: the hooks of one object run in the order of the eight steps; no
\* forward foreign-key dispatch comes before a direct-field dispatch.
C5_StepOrder ==
    \A i, j \in DOMAIN Tr : i < j => StepRank(Tr[i][1]) <= StepRank(Tr[j][1])

\* C5, amended: object-start; then the direct-field and forward foreign-key
\* dispatches together, in the declaration order of the local fields; then the
\* many-to-many, the reverse foreign-key and the reverse many-to-many dispatches;
\* then the extras in the order of `extras`; then object-end.
C5_LoopOrder ==
    Tr # <<>> =>
        /\ Tr[1][1] = "start_object"
        /\ \A i, j \in DOMAIN Tr :
              i < j =>
                 /\ LoopRank(Tr[i][1]) <= LoopRank(Tr[j][1])
                 /\ Tr[j][1] # "start_object"
                 /\ Tr[i][1] # "end_object"
                 /\ (LoopRank(Tr[i][1]) = 1 /\ LoopRank(Tr[j][1]) = 1) =>
                        DeclaredAt(TraceObj, Tr[i][2]) < DeclaredAt(TraceObj, Tr[j][2])
        /\ \A i \in ExtraAt : Tr[i][2] = Xtrs[Cardinality({j \in ExtraAt : j <= i})]

\* an object is finished whose foreign key was dispatched before a direct field, and
\* whose reverse relations and extras were dispatched too
C5_Witness ==
    /\ Tr # <<>>
    /\ Tr[Len(Tr)][1] = "end_object"
    /\ \E i, j \in DOMAIN Tr :
          i < j /\ Tr[i][1] = "handle_fk_field" /\ Tr[j][1] = "handle_field"
    /\ \E i \in DOMAIN Tr : Tr[i][1] = "handle_related_m2m_field"
    /\ Cardinality(ExtraAt) = 4

\* C6, as claimed: after a call raised, none of the records built before the
\* exception is observable through getvalue().
C6_NothingObservable == pc = "raised" => Finished = <<>>

\* C6, amended: the exception leaves serialize() as it was raised, and the records of
\* the objects before the failing one stay in the instance: getvalue() gives exactly
\* those k-1 records, in order, and no record of the k-th object.
C6_PartialResultKept ==
    pc = "raised" =>
        /\ inst.error = "DoesNotExist"
        /\ Len(Finished) = oi - 1
        /\ \A i \in DOMAIN Finished :
              /\ Finished[i].model = StrV(MetaOf(queryset[i]).label)
              /\ Finished[i].pk = GetPkVal(queryset[i])

\* the second object raised and the caller got the first object's record from getvalue()
C6_Witness ==
    /\ pc = "raised"
    /\ oi = 2
    /\ held = inst.objects
    /\ Len(heldval) = 1
    /\ heldval[1].pk = GetPkVal(queryset[1])

Dispatched(h, n) == \E i \in DOMAIN Tr : Tr[i] = <<h, n>>
Excluded(n) == \E i \in DOMAIN Excl : Excl[i] = n
Allowed(n) == ~Excluded(n) /\ (Len(Flds) = 0 \/ \E i \in DOMAIN Flds : Flds[i] = n)

ExpectedNested(n) ==
    IF Rels.kind = "dict"
    THEN IF Rels.items[n].kind = "dict" THEN Rels.items[n].items ELSE EmptyDict
    ELSE EmptyDict

ExtraValue(o, e) == IF GetAttr(o, e).t = "call" THEN GetAttr(o, e).ret ELSE GetAttr(o, e)
Resolved(o) == {e \in Range(Xtrs) : HasAttr(o, e)}

RECURSIVE RelDepth(_)
\* how deep the `relations` of an options bag nest
RelDepth(opts) ==
    LET r == Pop(opts, "relations", [kind |-> "list", names |-> <<>>])
    IN IF r.kind = "list" THEN (IF r.names = <<>> THEN 0 ELSE 1)
       ELSE IF DOMAIN r.items = {} THEN 0
       ELSE 1 + Max({IF r.items[k].kind = "dict" THEN RelDepth(r.items[k].items) ELSE 0 :
                        k \in DOMAIN r.items})

RECURSIVE ValueDepth(_)
RECURSIVE FieldsDepth(_)
\* how deep expanded records nest in a value
ValueDepth(v) ==
    CASE v.t = "rec" -> 1 + FieldsDepth(v.fields)
      [] v.t = "list" -> Max({0} \cup {ValueDepth(v.l[i]) : i \in DOMAIN v.l})
      [] OTHER -> 0
FieldsDepth(d) == Max({0} \cup {ValueDepth(d[k]) : k \in DOMAIN d})

\* C10: serialize() ends without exhausting the stack on a cyclic object graph: the
\* expanded records never nest deeper than the `relations` mappings do, and not
\* deeper than 1 when `relations` is a list.
C10_DepthBounded ==
    /\ inst.error # "RecursionError"
    /\ \A i \in DOMAIN Finished :
          /\ FieldsDepth(Finished[i].fields) <= RelDepth(callopts)
          /\ Rels.kind = "list" => FieldsDepth(Finished[i].fields) <= 1
    /\ Building =>
          /\ FieldsDepth(inst._fields) <= RelDepth(callopts)
          /\ Rels.kind = "list" => FieldsDepth(inst._fields) <= 1

\* book -> author -> book_set -> author came back, three levels deep, and stopped there
C10_Witness ==
    /\ pc = "returned"
    /\ queryset = <<"b1">>
    /\ RelDepth(callopts) = 3
    /\ FieldsDepth(heldval[1].fields) = 3

====
